---- MODULE Spec2Model ----
(***************************************************************************)
(* Model of src/download.py: the three entry points download_image,        *)
(* download_image_collection and add_image_to_map, executed statement      *)
(* group by statement group, together with the parts of the environment    *)
(* they touch: the local file system, the error log, the remote asset      *)
(* catalogue and the external download / map routines.                     *)
(***************************************************************************)
EXTENDS Integers, Sequences, FiniteSets, TLC

(* ------------------------------ bounds --------------------------------- *)
\* dates of the catalogue and of the filter interval range over 1..MaxDate
MaxDate == 2
\* values datetime.now() can take
MaxTime == 2

(* ------------------------- values of the inputs ------------------------ *)
\* Python None for a numeric scale (spatial_resolution = None)
NoScale == [n |-> 0, local |-> TRUE]
\* Python None for output_path
NoPath == [dir |-> <<>>, stem |-> "", stamp |-> 0, ext |-> ""]
\* no exception
NoErr == [step |-> "none", type |-> "none"]
\* no image bound yet
NoImage == [asset |-> <<>>, form |-> "none", clip |-> "none"]
\* no collection bound yet
NoCollection == [asset |-> <<>>, bound |-> FALSE, elems |-> <<>>]
\* no pass-through options
NoKwargs == [k \in {} |-> ""]

ImgAsset == <<"LANDSAT", "IMG">>
ColAsset == <<"MODIS", "COL">>

\* An asset reference as the caller passes it: a str, an object whose
\* str() gives the address (it has no split method), or an object whose
\* __str__ raises.
RefInputs ==
    { [kind |-> "str", val |-> ImgAsset],
      [kind |-> "str", val |-> ColAsset],
      [kind |-> "obj", val |-> ColAsset],
      [kind |-> "badstr", val |-> ImgAsset] }

ROIs == {"nepal", "other"}

\* spatial_resolution as the caller passes it: None or a number
ScaleInputs == {NoScale, [n |-> 100, local |-> TRUE]}

\* caller-supplied output paths: a bare name, a name in a directory, a
\* name two directories deep
PathInputs(ext) ==
    { [dir |-> d, stem |-> "a", stamp |-> 0, ext |-> ext] :
        d \in {<<>>, <<"out">>, <<"out", "sub">>} }

\* the documented downloader options the model passes, with a value each
OptVal(k) == IF k = "crs" THEN "EPSG:32645" ELSE "bilinear"
KwargsInputs == { [k \in S |-> OptVal(k)] : S \in SUBSET {"crs", "resampling"} }

\* image_path / image_asset_address of add_image_to_map: None, "", a value
MapInputs == {"None", "", "x"}

(* ------------------------- the remote catalogue ------------------------ *)
\* members of a collection asset: acquisition date, regions the footprint
\* intersects, native nominal scale
CollectionOf(a) ==
    IF a = ColAsset
    THEN << [id |-> 1, date |-> 1, regions |-> {"nepal"}, scale |-> 250],
            [id |-> 2, date |-> 1, regions |-> {"nepal", "other"}, scale |-> 500],
            [id |-> 3, date |-> 2, regions |-> {"other"}, scale |-> 1000] >>
    ELSE <<>>

\* native nominal scale of an image asset; 0 when the address names no image
ImageScale(a) == IF a = ImgAsset THEN 30 ELSE 0

\* .filterBounds(roi).filterDate(start_date, end_date): members whose
\* footprint meets roi and whose date is in [start_date, end_date)
InFilter(m, r, s, e) == r \in m.regions /\ s <= m.date /\ m.date < e
FilterCollection(a, r, s, e) ==
    LET F(m) == InFilter(m, r, s, e)
        kept == SelectSeq(CollectionOf(a), F)
    IN  [asset |-> a, bound |-> TRUE,
         elems |-> [i \in 1..Len(kept) |-> [id |-> kept[i].id, clip |-> "none"]]]

\* collection.first().projection().nominalScale(): 0 (null) when the
\* collection has no first element
FirstScale(a, elems) ==
    IF elems = <<>> THEN 0
    ELSE LET m == CHOOSE x \in { CollectionOf(a)[i] : i \in 1..Len(CollectionOf(a)) } :
                     x.id = elems[1].id
         IN  m.scale

\* .getInfo() on a null scale raises
ResolutionRaisesMut(n) == FALSE
ResolutionRaises(n) == n = 0

(* ------------------------------ builtins ------------------------------- *)
\* str(x) raises for an object whose __str__ raises
StrRaises(r) == r.kind = "badstr"
\* str(x)
Str(r) == [kind |-> "str", val |-> r.val]
\* x.split("/") raises AttributeError unless x is a str
SplitRaises(r) == r.kind # "str"
\* x.split("/")[0]
Prefix(r) == Head(r.val)

\* truth value of a Python object: None, False and "" are false; a function
\* object is true
Truthy(v) == v \notin {"None", "False", ""}
PyBool(b) == IF b THEN "True" ELSE "False"

(* ----------------------------- file system ----------------------------- *)
\* os.path.dirname
Dirname(p) == p.dir
\* the non-empty prefixes of a directory path
Prefixes(d) == { SubSeq(d, 1, i) : i \in 1..Len(d) }
\* os.path.exists: anything, directory or file, at the path; False for ''
Exists(d, ds, fs) == d \in ds \cup fs
\* os.makedirs raises FileNotFoundError for '' and NotADirectoryError when
\* a component of the path is a file; "none" when the path itself is no
\* obstacle
MakedirsError(d, fs) ==
    IF d = <<>> THEN "FileNotFoundError"
    ELSE IF Prefixes(d) \cap fs # {} THEN "NotADirectoryError"
    ELSE "none"
\* os.makedirs creates every missing directory on the path
Makedirs(d, ds) == ds \cup Prefixes(d)

\* line 71 / line 143: if not os.path.exists(output_dir)
NeedsMakedirsMut(d, ds, fs) == Exists(d, ds, fs)
NeedsMakedirs(d, ds, fs) == ~Exists(d, ds, fs)

DownloadsDir == <<"home", "Downloads">>

(* --------------------------- download_image ---------------------------- *)
\* lines 55 / 61: the crs of the two branches
CrsForMut(mosaic_collection) == "None"
CrsFor(mosaic_collection) == IF mosaic_collection THEN "EPSG:4326" ELSE "None"

\* the keywords the call at lines 74-81 spells out; a pass-through option
\* of the same name makes the call raise TypeError
ExplicitImageKeys == {"image", "filename", "region", "crs", "scale"}
\* the keywords the call at lines 146-152 spells out
ExplicitCollectionKeys == {"collection", "out_dir", "region", "scale"}

VARIABLES
    op,         \* the entry point being executed, or "idle"
    pc,         \* the statement group about to execute
    args,       \* the arguments as the caller passed them
    loc,        \* the local variables of the running call
    dirs,       \* directories that exist
    files,      \* paths at which a regular file exists
    dirs0,      \* dirs when the running call began
    errorLog,   \* lines appended to log/error.log by the running call
    calls,      \* invocations of the external download routines by the running call
    events,     \* makedirs and download events of the running call, in order
    raised,     \* the exception raised inside the try block, or NoErr
    result,     \* how the call ended
    Map         \* layers of the map object of add_image_to_map

vars == << op, pc, args, loc, dirs, files, dirs0, errorLog, calls, events,
           raised, result, Map >>

NoArgs ==
    [ref |-> [kind |-> "str", val |-> <<>>], clip |-> TRUE, roi |-> "nepal",
     output_path |-> NoPath, mosaic_collection |-> FALSE,
     spatial_resolution |-> NoScale, kwargs |-> NoKwargs,
     start_date |-> 0, end_date |-> 0,
     image_path |-> "None", image_asset_address |-> "None"]

NoLoc ==
    [address |-> [kind |-> "str", val |-> <<>>], image_prefix |-> "",
     clip |-> "None", image |-> NoImage, image_collection |-> NoCollection,
     spatial_resolution |-> NoScale, crs |-> "None", output_path |-> NoPath]

NoResult == [kind |-> "none", err |-> NoErr]

\* the file systems a call can start in: the home directory exists, the
\* Downloads directory may be missing, "out" is absent, a file, a directory
\* or a directory with "sub" in it
InitDirs ==
    { {<<"home">>} \cup D \cup O :
        D \in {{}, {DownloadsDir}},
        O \in {{}, {<<"out">>}, {<<"out">>, <<"out", "sub">>}} }

Init ==
    /\ op = "idle"
    /\ pc = "idle"
    /\ args = NoArgs
    /\ loc = NoLoc
    /\ dirs \in InitDirs
    /\ files \in {{}, {<<"out">>}}
    /\ files \cap dirs = {}
    /\ dirs0 = dirs
    /\ errorLog = <<>>
    /\ calls = <<>>
    /\ events = <<>>
    /\ raised = NoErr
    /\ result = NoResult
    /\ Map = <<>>

\* what a call leaves alone when it begins
Frame == UNCHANGED << dirs, files, dirs0, errorLog, calls, events, raised, result >>

\* an exception raised inside the try block: control goes to the handler
Raise(handler, step, type) ==
    /\ raised' = [step |-> step, type |-> type]
    /\ pc' = handler

\* lines 14-22: the call binds the parameters.  Map, the map object the
\* caller got from the last preview, is dropped when a fetch begins: a
\* fetch neither reads nor writes it.
CallDownloadImage ==
    /\ pc = "idle"
    /\ \E r \in RefInputs, c \in BOOLEAN, g \in ROIs,
       o \in {NoPath} \cup PathInputs(".tif"), m \in BOOLEAN,
       s \in ScaleInputs, k \in KwargsInputs :
        LET a == [NoArgs EXCEPT !.ref = r, !.clip = c, !.roi = g,
                                !.output_path = o, !.mosaic_collection = m,
                                !.spatial_resolution = s, !.kwargs = k]
        IN  /\ op' = "download_image"
            /\ pc' = "di_str"
            /\ args' = a
            /\ loc' = [NoLoc EXCEPT !.address = r, !.clip = PyBool(c),
                                    !.spatial_resolution = s, !.output_path = o]
            /\ Map' = <<>>
            /\ Frame

\* lines 49-50: image_asset_address = str(...); image_prefix = ...split("/")[0]
DI_Str ==
    /\ pc = "di_str"
    /\ IF StrRaises(loc.address)
       THEN /\ Raise("di_log", "str", "ValueError")
            /\ UNCHANGED loc
       ELSE /\ loc' = [loc EXCEPT !.address = Str(loc.address),
                                  !.image_prefix = Prefix(Str(loc.address))]
            /\ pc' = "di_resolve"
            /\ UNCHANGED raised
    /\ UNCHANGED << op, args, dirs, files, dirs0, errorLog, calls, events, result, Map >>

\* lines 52-61: the mosaic branch builds the collection, takes the scale of
\* its first member without materialising it, fixes the crs and mosaics;
\* the other branch builds the image and materialises its own scale
DI_Resolve ==
    /\ pc = "di_resolve"
    /\ IF args.mosaic_collection
       THEN /\ loc' = [loc EXCEPT
                          !.spatial_resolution =
                              [n |-> FirstScale(loc.address.val,
                                        [i \in 1..Len(CollectionOf(loc.address.val)) |->
                                            [id |-> CollectionOf(loc.address.val)[i].id,
                                             clip |-> "none"]]),
                               local |-> FALSE],
                          !.crs = CrsFor(TRUE),
                          !.image = [asset |-> loc.address.val, form |-> "mosaic",
                                     clip |-> "none"]]
            /\ pc' = "di_clip"
            /\ UNCHANGED raised
       ELSE \/ /\ ~ResolutionRaises(ImageScale(loc.address.val))
               /\ loc' = [loc EXCEPT
                             !.spatial_resolution =
                                 [n |-> ImageScale(loc.address.val), local |-> TRUE],
                             !.crs = CrsFor(FALSE),
                             !.image = [asset |-> loc.address.val, form |-> "image",
                                        clip |-> "none"]]
               /\ pc' = "di_clip"
               /\ UNCHANGED raised
            \/ \* getInfo raises: no such image, or the request fails
               /\ Raise("di_log", "resolution", "EEException")
               /\ loc' = [loc EXCEPT !.image = [asset |-> loc.address.val,
                                                form |-> "image", clip |-> "none"]]
    /\ UNCHANGED << op, args, dirs, files, dirs0, errorLog, calls, events, result, Map >>

\* lines 63-64: if clip: image = image.clip(roi)
DI_Clip ==
    /\ pc = "di_clip"
    /\ loc' = IF Truthy(loc.clip)
              THEN [loc EXCEPT !.image.clip = args.roi]
              ELSE loc
    /\ pc' = "di_path"
    /\ UNCHANGED << op, args, dirs, files, dirs0, errorLog, calls, events, raised, result, Map >>

\* lines 66-72 and 138-144: resolve the output location.  With no
\* output_path the name is generated under the Downloads directory and no
\* directory is created; otherwise the parent is created when nothing
\* exists at it.
ResolvePath(handler, next, ext) ==
    IF loc.output_path = NoPath
    THEN \E t \in 1..MaxTime :
            /\ loc' = [loc EXCEPT !.output_path =
                          [dir |-> DownloadsDir, stem |-> loc.image_prefix,
                           stamp |-> t, ext |-> ext]]
            /\ pc' = next
            /\ UNCHANGED << dirs, events, raised >>
    ELSE LET output_dir == Dirname(loc.output_path) IN
         IF NeedsMakedirs(output_dir, dirs, files)
         THEN \/ /\ MakedirsError(output_dir, files) = "none"
                 /\ dirs' = Makedirs(output_dir, dirs)
                 /\ events' = Append(events, "makedirs")
                 /\ pc' = next
                 /\ UNCHANGED << loc, raised >>
              \/ \* the path is '' or runs through a file
                 /\ MakedirsError(output_dir, files) # "none"
                 /\ Raise(handler, "makedirs", MakedirsError(output_dir, files))
                 /\ UNCHANGED << loc, dirs, events >>
              \/ \* the system refuses to create the directory
                 /\ MakedirsError(output_dir, files) = "none"
                 /\ Raise(handler, "makedirs", "PermissionError")
                 /\ UNCHANGED << loc, dirs, events >>
         ELSE /\ pc' = next
              /\ UNCHANGED << loc, dirs, events, raised >>

DI_Path ==
    /\ pc = "di_path"
    /\ ResolvePath("di_log", "di_download", ".tif")
    /\ UNCHANGED << op, args, files, dirs0, errorLog, calls, result, Map >>

\* lines 74-81: return geemap.download_ee_image(image=..., filename=...,
\* region=roi, crs=crs, scale=spatial_resolution, **kwargs)
DI_Download ==
    /\ pc = "di_download"
    /\ IF DOMAIN args.kwargs \cap ExplicitImageKeys # {}
       THEN /\ Raise("di_log", "call", "TypeError")
            /\ UNCHANGED << calls, events, result >>
       ELSE /\ calls' = Append(calls,
                  [routine |-> "download_ee_image", image |-> loc.image,
                   collection |-> NoCollection, filename |-> loc.output_path,
                   region |-> args.roi, crs |-> loc.crs,
                   scale |-> loc.spatial_resolution, options |-> args.kwargs])
            /\ events' = Append(events, "download")
            /\ \/ /\ result' = [kind |-> "return", err |-> NoErr]
                  /\ pc' = "done"
                  /\ UNCHANGED raised
               \/ /\ Raise("di_log", "download", "DownloadError")
                  /\ UNCHANGED result
    /\ UNCHANGED << op, args, loc, dirs, files, dirs0, errorLog, Map >>

\* lines 83 and 154: logging.error(f"Error: ({now}): {e} for asset {address}").
\* Formatting the address calls str() on it; when that raises, nothing is
\* logged and the new exception leaves the handler.
LogError(next) ==
    IF StrRaises(loc.address)
    THEN /\ result' = [kind |-> "raise", err |-> [step |-> "handler", type |-> "ValueError"]]
         /\ pc' = "done"
         /\ UNCHANGED errorLog
    ELSE \E t \in 1..MaxTime :
            /\ errorLog' = Append(errorLog,
                   [time |-> t, err |-> raised, ref |-> Str(loc.address).val])
            /\ pc' = next
            /\ UNCHANGED result

DI_Log ==
    /\ pc = "di_log"
    /\ LogError("di_raise")
    /\ UNCHANGED << op, args, loc, dirs, files, dirs0, calls, events, raised, Map >>

\* line 84: raise e
DI_Reraise ==
    /\ pc = "di_raise"
    /\ result' = [kind |-> "raise", err |-> raised]
    /\ pc' = "done"
    /\ UNCHANGED << op, args, loc, dirs, files, dirs0, errorLog, calls, events, raised, Map >>

(* ----------------------- download_image_collection --------------------- *)
\* lines 86-95: the call binds the parameters (mosaic is never read)
CallDownloadImageCollection ==
    /\ pc = "idle"
    /\ \E r \in RefInputs, sd \in 1..MaxDate, ed \in 1..MaxDate,
       o \in {NoPath} \cup PathInputs(""), g \in ROIs, c \in BOOLEAN,
       k \in KwargsInputs :
        LET a == [NoArgs EXCEPT !.ref = r, !.start_date = sd, !.end_date = ed,
                                !.output_path = o, !.roi = g, !.clip = c,
                                !.kwargs = k]
        IN  /\ op' = "download_image_collection"
            /\ pc' = "dic_def"
            /\ args' = a
            /\ loc' = [NoLoc EXCEPT !.address = r, !.clip = PyBool(c),
                                    !.output_path = o]
            /\ Map' = <<>>
            /\ Frame

\* lines 122-123: def clip(image) rebinds the local name clip, which held
\* the caller's flag, to the nested function
DIC_DefClip ==
    /\ pc = "dic_def"
    /\ loc' = [loc EXCEPT !.clip = "function"]
    /\ pc' = "dic_prefix"
    /\ UNCHANGED << op, args, dirs, files, dirs0, errorLog, calls, events, raised, result, Map >>

\* line 125: image_prefix = collection_asset_address.split("/")[0], on the
\* address as passed
DIC_Prefix ==
    /\ pc = "dic_prefix"
    /\ IF SplitRaises(loc.address)
       THEN /\ Raise("dic_log", "prefix", "AttributeError")
            /\ UNCHANGED loc
       ELSE /\ loc' = [loc EXCEPT !.image_prefix = Prefix(loc.address)]
            /\ pc' = "dic_str"
            /\ UNCHANGED raised
    /\ UNCHANGED << op, args, dirs, files, dirs0, errorLog, calls, events, result, Map >>

\* line 127: collection_asset_address = str(collection_asset_address)
DIC_Str ==
    /\ pc = "dic_str"
    /\ IF StrRaises(loc.address)
       THEN /\ Raise("dic_log", "str", "ValueError")
            /\ UNCHANGED loc
       ELSE /\ loc' = [loc EXCEPT !.address = Str(loc.address)]
            /\ pc' = "dic_filter"
            /\ UNCHANGED raised
    /\ UNCHANGED << op, args, dirs, files, dirs0, errorLog, calls, events, result, Map >>

\* lines 129-131: ee.ImageCollection(address).filterBounds(roi).filterDate(..)
DIC_Filter ==
    /\ pc = "dic_filter"
    /\ loc' = [loc EXCEPT !.image_collection =
                  FilterCollection(loc.address.val, args.roi,
                                   args.start_date, args.end_date)]
    /\ pc' = "dic_res"
    /\ UNCHANGED << op, args, dirs, files, dirs0, errorLog, calls, events, raised, result, Map >>

\* line 133: image_collection.first().projection().nominalScale().getInfo()
DIC_Resolution ==
    /\ pc = "dic_res"
    /\ LET n == FirstScale(loc.image_collection.asset, loc.image_collection.elems) IN
       \/ /\ ~ResolutionRaises(n)
          /\ loc' = [loc EXCEPT !.spatial_resolution = [n |-> n, local |-> TRUE]]
          /\ pc' = "dic_clip"
          /\ UNCHANGED raised
       \/ \* no first element, or the request fails
          /\ Raise("dic_log", "resolution", "EEException")
          /\ UNCHANGED loc
    /\ UNCHANGED << op, args, dirs, files, dirs0, errorLog, calls, events, result, Map >>

\* lines 135-136: if clip: image_collection = image_collection.map(clip)
DIC_Clip ==
    /\ pc = "dic_clip"
    /\ loc' = IF Truthy(loc.clip)
              THEN [loc EXCEPT !.image_collection.elems =
                       [i \in 1..Len(loc.image_collection.elems) |->
                           [loc.image_collection.elems[i] EXCEPT !.clip = args.roi]]]
              ELSE loc
    /\ pc' = "dic_path"
    /\ UNCHANGED << op, args, dirs, files, dirs0, errorLog, calls, events, raised, result, Map >>

DIC_Path ==
    /\ pc = "dic_path"
    /\ ResolvePath("dic_log", "dic_download", "")
    /\ UNCHANGED << op, args, files, dirs0, errorLog, calls, result, Map >>

\* lines 146-152: return geemap.download_ee_image_collection(collection=...,
\* out_dir=output_path, region=roi, scale=spatial_resolution, **kwargs)
DIC_Download ==
    /\ pc = "dic_download"
    /\ IF DOMAIN args.kwargs \cap ExplicitCollectionKeys # {}
       THEN /\ Raise("dic_log", "call", "TypeError")
            /\ UNCHANGED << calls, events, result >>
       ELSE /\ calls' = Append(calls,
                  [routine |-> "download_ee_image_collection", image |-> NoImage,
                   collection |-> loc.image_collection, filename |-> loc.output_path,
                   region |-> args.roi, crs |-> "None",
                   scale |-> loc.spatial_resolution, options |-> args.kwargs])
            /\ events' = Append(events, "download")
            /\ \/ /\ result' = [kind |-> "return", err |-> NoErr]
                  /\ pc' = "done"
                  /\ UNCHANGED raised
               \/ /\ Raise("dic_log", "download", "DownloadError")
                  /\ UNCHANGED result
    /\ UNCHANGED << op, args, loc, dirs, files, dirs0, errorLog, Map >>

DIC_Log ==
    /\ pc = "dic_log"
    /\ LogError("dic_raise")
    /\ UNCHANGED << op, args, loc, dirs, files, dirs0, calls, events, raised, Map >>

\* line 155: raise e
DIC_Reraise ==
    /\ pc = "dic_raise"
    /\ result' = [kind |-> "raise", err |-> raised]
    /\ pc' = "done"
    /\ UNCHANGED << op, args, loc, dirs, files, dirs0, errorLog, calls, events, raised, Map >>

(* ---------------------------- add_image_to_map ------------------------- *)
\* line 157: the call binds the parameters; Map still is the map object of
\* the last preview
CallAddImageToMap ==
    /\ pc = "idle"
    /\ \E ip \in MapInputs, ia \in MapInputs :
        /\ op' = "add_image_to_map"
        /\ pc' = "am_map"
        /\ args' = [NoArgs EXCEPT !.image_path = ip, !.image_asset_address = ia]
        /\ loc' = NoLoc
        /\ UNCHANGED Map
        /\ Frame

\* line 168: Map = geemap.Map(), a new map with no layer of this module's
NewMapMut(old) == old
NewMap(old) == <<>>

AM_Map ==
    /\ pc = "am_map"
    /\ Map' = NewMap(Map)
    /\ pc' = "am_raster"
    /\ UNCHANGED << op, args, loc, dirs, files, dirs0, errorLog, calls, events, raised, result >>

\* an exception in add_image_to_map meets no handler
Escape(step, type) ==
    /\ raised' = [step |-> step, type |-> type]
    /\ result' = [kind |-> "raise", err |-> [step |-> step, type |-> type]]
    /\ pc' = "done"

\* lines 170-171: if image_path: Map.add_raster(source=image_path, ...)
AM_Raster ==
    /\ pc = "am_raster"
    /\ IF Truthy(args.image_path)
       THEN \/ /\ Map' = Append(Map, [kind |-> "raster", source |-> args.image_path])
               /\ pc' = "am_layer"
               /\ UNCHANGED << raised, result >>
            \/ \* add_raster raises (unreadable file, missing reader package)
               /\ Escape("add_raster", "MapError")
               /\ UNCHANGED Map
       ELSE /\ pc' = "am_layer"
            /\ UNCHANGED << Map, raised, result >>
    /\ UNCHANGED << op, args, loc, dirs, files, dirs0, errorLog, calls, events >>

\* lines 173-174: if image_asset_address: Map.addLayer(ee.Image(...), ...)
AM_Layer ==
    /\ pc = "am_layer"
    /\ IF Truthy(args.image_asset_address)
       THEN \/ /\ Map' = Append(Map, [kind |-> "image", source |-> args.image_asset_address])
               /\ pc' = "am_return"
               /\ UNCHANGED << raised, result >>
            \/ \* addLayer raises (no such asset, request fails)
               /\ Escape("addLayer", "MapError")
               /\ UNCHANGED Map
       ELSE /\ pc' = "am_return"
            /\ UNCHANGED << Map, raised, result >>
    /\ UNCHANGED << op, args, loc, dirs, files, dirs0, errorLog, calls, events >>

\* line 175: return Map
AM_Return ==
    /\ pc = "am_return"
    /\ result' = [kind |-> "return", err |-> NoErr]
    /\ pc' = "done"
    /\ UNCHANGED << op, args, loc, dirs, files, dirs0, errorLog, calls, events, raised, Map >>

\* the caller has the outcome and the frame is gone; the file system and
\* the caller's map object stay as the call left them
Return ==
    /\ pc = "done"
    /\ op' = "idle"
    /\ pc' = "idle"
    /\ args' = NoArgs
    /\ loc' = NoLoc
    /\ dirs0' = dirs
    /\ errorLog' = <<>>
    /\ calls' = <<>>
    /\ events' = <<>>
    /\ raised' = NoErr
    /\ result' = NoResult
    /\ UNCHANGED << dirs, files, Map >>

Next ==
    \/ CallDownloadImage
    \/ DI_Str
    \/ DI_Resolve
    \/ DI_Clip
    \/ DI_Path
    \/ DI_Download
    \/ DI_Log
    \/ DI_Reraise
    \/ CallDownloadImageCollection
    \/ DIC_DefClip
    \/ DIC_Prefix
    \/ DIC_Str
    \/ DIC_Filter
    \/ DIC_Resolution
    \/ DIC_Clip
    \/ DIC_Path
    \/ DIC_Download
    \/ DIC_Log
    \/ DIC_Reraise
    \/ CallAddImageToMap
    \/ AM_Map
    \/ AM_Raster
    \/ AM_Layer
    \/ AM_Return
    \/ Return

Spec == Init /\ [][Next]_vars

(* ------------------------------- claims -------------------------------- *)
Fetching == op \in {"download_image", "download_image_collection"}
Supplied == args.output_path # NoPath

\* C1: in both fetch operations, a failure at any step inside the try
\* block appends exactly one entry naming the reference to the error log
\* before the error reaches the caller, and the caller gets the very error
\* that was raised.
CE_C1 ==
    (Fetching /\ pc = "done" /\ raised # NoErr) =>
        /\ Len(errorLog) = 1
        /\ errorLog[1].ref = args.ref.val
        /\ errorLog[1].err = raised
        /\ result = [kind |-> "raise", err |-> raised]

\* C2: download_image_collection hands the downloader the filtered
\* collection with every element clipped to roi when clip is True and with
\* no element clipped when clip is False.
CE_C2 ==
    \A i \in 1..Len(calls) :
        calls[i].routine = "download_ee_image_collection" =>
            \A j \in 1..Len(calls[i].collection.elems) :
                calls[i].collection.elems[j].clip =
                    IF args.clip THEN args.roi ELSE "none"

\* the native nominal scale download_image reads: of the first member of
\* the collection under mosaic_collection, of the image otherwise
NativeScale ==
    IF args.mosaic_collection
    THEN IF CollectionOf(args.ref.val) = <<>> THEN 0
         ELSE CollectionOf(args.ref.val)[1].scale
    ELSE ImageScale(args.ref.val)

\* C3: the scale download_image passes to the downloader is the caller's
\* spatial_resolution when one is supplied and the native nominal scale
\* only when none is, for both values of mosaic_collection.
CE_C3 ==
    \A i \in 1..Len(calls) :
        calls[i].routine = "download_ee_image" =>
            calls[i].scale.n =
                IF args.spatial_resolution # NoScale
                THEN args.spatial_resolution.n
                ELSE NativeScale

\* C4: for every bag of documented options, crs included, a download_image
\* that gets as far as its download statement invokes the downloader
\* exactly once with every option as the caller gave it.
CE_C4 ==
    (op = "download_image" /\
     (result.kind = "return" \/ raised.step \in {"call", "download"})) =>
        /\ Len(calls) = 1
        /\ calls[1].options = args.kwargs

\* C5: in both fetch operations, when output_path is supplied and nothing
\* exists at its non-empty parent when the call begins, the parent is
\* created before the downloader is invoked and exists when it is invoked.
T_C5 ==
    \A i \in 1..Len(calls) :
        LET output_dir == Dirname(calls[i].filename) IN
        (Fetching /\ Supplied /\ output_dir # <<>>
                  /\ ~Exists(output_dir, dirs0, files)) =>
            /\ output_dir \in dirs
            /\ events = <<"makedirs", "download">>

W_C5 ==
    /\ op = "download_image_collection"
    /\ pc = "done"
    /\ Len(calls) = 1
    /\ args.output_path.dir = <<"out", "sub">>
    /\ <<"out">> \notin dirs0
    /\ <<"out", "sub">> \in dirs
    /\ events = <<"makedirs", "download">>

\* C6: the crs download_image passes to the downloader is "EPSG:4326" when
\* mosaic_collection is true and None when it is false, whatever clip and
\* output_path are.
T_C6 ==
    \A i \in 1..Len(calls) :
        calls[i].routine = "download_ee_image" =>
            calls[i].crs = IF args.mosaic_collection THEN "EPSG:4326" ELSE "None"

W_C6 ==
    /\ op = "download_image"
    /\ Len(calls) = 1
    /\ args.mosaic_collection
    /\ ~args.clip
    /\ Supplied
    /\ calls[1].crs = "EPSG:4326"

\* C7: when the region-and-date filter of download_image_collection
\* matches no image, the call ends in the error of the resolution lookup:
\* the downloader is never invoked, no directory is created and the error
\* reaches the caller.
T_C7 ==
    (op = "download_image_collection" /\ loc.image_collection.bound
        /\ loc.image_collection.elems = <<>>) =>
        /\ calls = <<>>
        /\ events = <<>>
        /\ dirs = dirs0
        /\ pc \in {"dic_res", "dic_log", "dic_raise", "done"}
        /\ pc = "done" =>
              result = [kind |-> "raise",
                        err |-> [step |-> "resolution", type |-> "EEException"]]

W_C7 ==
    /\ op = "download_image_collection"
    /\ pc = "done"
    /\ args.ref.val = ColAsset
    /\ loc.image_collection.bound
    /\ loc.image_collection.elems = <<>>
    /\ args.output_path.dir = <<"out">>
    /\ <<"out">> \notin dirs \cup files
    /\ result.kind = "raise"

\* the layers add_image_to_map is to put on the map for given arguments
LayersFor(hasPath, hasAsset) ==
    (IF hasPath THEN << [kind |-> "raster", source |-> args.image_path] >> ELSE <<>>)
    \o (IF hasAsset THEN << [kind |-> "image", source |-> args.image_asset_address] >>
        ELSE <<>>)

\* C8: add_image_to_map always returns a new map without error, with one
\* raster layer iff image_path is supplied and one image layer iff
\* image_asset_address is supplied.
CE_C8 ==
    (op = "add_image_to_map" /\ pc = "done") =>
        /\ result.kind = "return"
        /\ Map = LayersFor(args.image_path # "None", args.image_asset_address # "None")

\* C8 as amended: whenever add_image_to_map returns, the map is a new one
\* with one raster layer iff image_path is supplied and non-empty and one
\* image layer iff image_asset_address is supplied and non-empty; it only
\* fails to return when a layer it adds raises, and then the error of the
\* map routine reaches the caller.
T_C8 ==
    (op = "add_image_to_map" /\ pc = "done") =>
        /\ result.kind = "return" =>
              Map = LayersFor(Truthy(args.image_path), Truthy(args.image_asset_address))
        /\ result.kind # "return" =>
              /\ Truthy(args.image_path) \/ Truthy(args.image_asset_address)
              /\ result = [kind |-> "raise", err |-> raised]
              /\ raised.step \in {"add_raster", "addLayer"}

W_C8 ==
    /\ op = "add_image_to_map"
    /\ pc = "done"
    /\ result.kind = "return"
    /\ args.image_path = "x"
    /\ args.image_asset_address = "x"
    /\ Len(Map) = 2

\* C9: in both fetch operations, whenever the downloader is invoked the
\* directory that is to contain the output location exists, for a supplied
\* location and for one generated under the Downloads directory alike.  (A
\* parent path that runs through a regular file is left out.)
CE_C9 ==
    \A i \in 1..Len(calls) :
        LET output_dir == Dirname(calls[i].filename) IN
        (Fetching /\ Prefixes(output_dir) \cap files = {}) =>
            output_dir = <<>> \/ output_dir \in dirs

\* C10: in both fetch operations, for every supplied output_path (parent
\* existing, parent missing, or a bare name) resolving the output location
\* succeeds, short of the file system refusing, and the downloader is
\* invoked with exactly the supplied path.
CE_C10 ==
    (Fetching /\ Supplied) =>
        /\ raised.step = "makedirs" =>
              raised.type \in {"PermissionError", "NotADirectoryError"}
        /\ \A i \in 1..Len(calls) : calls[i].filename = args.output_path

====
